---- MODULE Spec2Model ----
(***************************************************************************)
(* Session / stream synchronisation engine of socratex.                    *)
(*                                                                         *)
(* The model covers the Home component of src/app/page.tsx (its state,     *)
(* its effects and its handlers), the session store of                     *)
(* src/unnamed/part_000 (localStorage CRUD, title derivation) and the      *)
(* behaviour of the useChat transport the component drives (message list,  *)
(* status, in-flight responses).                                           *)
(*                                                                         *)
(* One step of the model is one event of the single-threaded event loop:   *)
(* a handler runs to completion, React re-renders, and the effects whose   *)
(* dependencies changed run until no state changes any more.               *)
(***************************************************************************)
EXTENDS Integers, Sequences, FiniteSets, TLC

VARIABLES
    currentSessionId,          \* useState: the displayed session id, or Null
    activeStreamingSessionId,  \* useState: the session the stream is bound to, or Null
    streamMessages,            \* useChat().messages: the live message list
    status,                    \* useChat().status: idle (ready or error) | submitted | streaming
    displayMessages,           \* useState: the messages on screen
    sessions,                  \* useState: the component's copy of the session list
    ocr,                       \* handleImageUpload in flight: closure's currentSessionId, or NoOcr
    lsSessions,                \* localStorage["socratex-sessions"], serialised records
    lsCurrent,                 \* localStorage["socratex-current-session"]
    storage,                   \* the backing storage: ok | quota | disabled
    jobs,                      \* in-flight responses of the transport, by assistant message id
    activeResponse,            \* the transport's activeResponse: a job id, or Null
    nextId,                    \* next message id of the transport's id generator
    nextSession,               \* next session id to be minted
    sent,                      \* number of sends since the page was opened
    now,                       \* the wall clock read by new Date()
    op                         \* history: the regenerate / edit under way and the list it left

vars == <<currentSessionId, activeStreamingSessionId, streamMessages, status,
          displayMessages, sessions, ocr, lsSessions, lsCurrent, storage, jobs,
          activeResponse, nextId, nextSession, sent, now, op>>

\* the variables a commit of the component publishes
viewVars == <<currentSessionId, activeStreamingSessionId, streamMessages, status,
              displayMessages, sessions, lsSessions>>
\* the variables of the transport
chatVars == <<jobs, activeResponse, nextId, sent>>

----------------------------------------------------------------------------
(* Bounds of the model *)

MaxSends == 2
MaxSessions == 2
MaxTokens == 1
MaxTime == 1
MaxJobs == 2
\* clock ticks in one calendar day, sessions listed in the sidebar
DayLength == 2
MaxListed == 3

(* Program constants *)

TitleLimit == 50
\* setDate(getDate() - 1), - 7, - 30
YesterdayDays == 1
WeekDays == 7
MonthDays == 30

----------------------------------------------------------------------------
(* Values *)

Null == 0          \* null / undefined
EmptyId == -1      \* the empty string written by setCurrentSessionId("")
NoOcr == -2        \* no OCR request in flight

Space == " "
NewChat == <<"N", "e", "w", " ", "C", "h", "a", "t">>
Ellipsis == <<".", ".", ".">>

\* what the user can type into the input box or the edit box
Inputs == { <<" ">>, <<" ", "b">> }
\* titles the sidebar passes to onRenameSession (already trimmed, non-empty)
Titles == { <<"T">> }

WhiteboardText == <<"w">>
WhiteboardUrl == <<"p", "n", "g">>
OcrText == <<"o">>

TokenNames == <<"t1", "t2", "t3", "t4">>

----------------------------------------------------------------------------
(* Strings: String.prototype.trim *)

RECURSIVE TrimLeft(_)
TrimLeft(s) ==
    IF s = <<>> THEN <<>>
    ELSE IF Head(s) = Space THEN TrimLeft(Tail(s)) ELSE s

RECURSIVE TrimRight(_)
TrimRight(s) ==
    IF s = <<>> THEN <<>>
    ELSE IF s[Len(s)] = Space THEN TrimRight(SubSeq(s, 1, Len(s) - 1)) ELSE s

Trim(s) == TrimRight(TrimLeft(s))

----------------------------------------------------------------------------
(* Messages *)

TextPart(t) == [type |-> "text", text |-> t]
FilePart(u) == [type |-> "file", url |-> u]

UserMessage(id, parts) == [id |-> id, role |-> "user", parts |-> parts]

\* the assistant message of a response after k chunks
AssistantMessage(id, k) ==
    [id |-> id, role |-> "assistant", parts |-> <<TextPart(SubSeq(TokenNames, 1, k))>>]

\* Array.prototype.slice(0, n) for 0 <= n
Slice(list, n) == SubSeq(list, 1, IF n < Len(list) THEN n ELSE Len(list))

\* indices (1-based) of the elements of a list that satisfy Test
Matching(list, Test(_)) == { i \in 1..Len(list) : Test(list[i]) }

Min(S) == CHOOSE x \in S : \A y \in S : x <= y
Max(S) == CHOOSE x \in S : \A y \in S : y <= x

----------------------------------------------------------------------------
(* Session store: src/unnamed/part_000 (lib/session-storage) *)

\* JSON.stringify of a Date, and new Date(string)
DateToJSON(t) == <<"iso", t>>
ParseDate(j) == j[2]

\* a serialization that keeps only the last message of a session
Serialize_LastMessageOnly(s) ==
    [id |-> s.id, title |-> s.title,
     messages |-> SubSeq(s.messages, Len(s.messages), Len(s.messages)),
     createdAt |-> DateToJSON(s.createdAt), updatedAt |-> DateToJSON(s.updatedAt)]

Serialize(s) ==
    [id |-> s.id, title |-> s.title, messages |-> s.messages,
     createdAt |-> DateToJSON(s.createdAt), updatedAt |-> DateToJSON(s.updatedAt)]

Deserialize(r) ==
    [id |-> r.id, title |-> r.title, messages |-> r.messages,
     createdAt |-> ParseDate(r.createdAt), updatedAt |-> ParseDate(r.updatedAt)]

\* the value of an absent localStorage key
Absent == [has |-> FALSE, json |-> <<>>]
Stored(json) == [has |-> TRUE, json |-> json]

CanRead(st) == st # "disabled"
CanWrite(st) == st = "ok"

getAllSessions(ls, st) ==
    IF ~CanRead(st) THEN <<>>
    ELSE IF ~ls.has THEN <<>>
    ELSE [i \in 1..Len(ls.json) |-> Deserialize(ls.json[i])]

\* Array.prototype.findIndex on the session id, 1-based, 0 when absent
FindIndex(list, id) ==
    LET hits == { i \in 1..Len(list) : list[i].id = id }
    IN  IF hits = {} THEN 0 ELSE Min(hits)

\* saveSession that always adds the record at the front
saveSession_AlwaysUnshift(ls, st, session) ==
    LET all == getAllSessions(ls, st)
        updated == <<session>> \o all
    IN  IF CanWrite(st)
        THEN Stored([i \in 1..Len(updated) |-> Serialize(updated[i])])
        ELSE ls

\* saveSession whose catch block removes the sessions key
saveSession_ResetsOnFailure(ls, st, session) ==
    LET all == getAllSessions(ls, st)
        index == FindIndex(all, session.id)
        updated == IF index >= 1
                   THEN [all EXCEPT ![index] = session]
                   ELSE <<session>> \o all
    IN  IF CanWrite(st)
        THEN Stored([i \in 1..Len(updated) |-> Serialize(updated[i])])
        ELSE Absent

\* saveSession moving a replaced record to the front
saveSession_MovesToFront(ls, st, session) ==
    LET all == getAllSessions(ls, st)
        others == SelectSeq(all, LAMBDA s : s.id # session.id)
        updated == <<session>> \o others
    IN  IF CanWrite(st)
        THEN Stored([i \in 1..Len(updated) |-> Serialize(updated[i])])
        ELSE ls

saveSession(ls, st, session) ==
    LET all == getAllSessions(ls, st)
        index == FindIndex(all, session.id)
        updated == IF index >= 1
                   THEN [all EXCEPT ![index] = session]
                   ELSE <<session>> \o all
    IN  IF CanWrite(st)
        THEN Stored([i \in 1..Len(updated) |-> Serialize(updated[i])])
        ELSE ls

\* deleteSession by splice(findIndex(...), 1): an absent id gives index -1,
\* which removes the last record
deleteSession_Splice(ls, st, sessionId) ==
    LET all == getAllSessions(ls, st)
        index == FindIndex(all, sessionId)
        at == IF index >= 1 THEN index ELSE Len(all)
        filtered == [i \in 1..Max({Len(all) - 1, 0}) |->
                        IF i < at THEN all[i] ELSE all[i + 1]]
    IN  IF CanWrite(st)
        THEN Stored([i \in 1..Len(filtered) |-> Serialize(filtered[i])])
        ELSE ls

deleteSession(ls, st, sessionId) ==
    LET all == getAllSessions(ls, st)
        filtered == SelectSeq(all, LAMBDA s : s.id # sessionId)
    IN  IF CanWrite(st)
        THEN Stored([i \in 1..Len(filtered) |-> Serialize(filtered[i])])
        ELSE ls

updateSessionTitle(ls, st, sessionId, title, t) ==
    LET all == getAllSessions(ls, st)
        index == FindIndex(all, sessionId)
    IN  IF index >= 1
        THEN saveSession(ls, st, [all[index] EXCEPT !.title = title, !.updatedAt = t])
        ELSE ls

getCurrentSessionId(lc, st) == IF CanRead(st) THEN lc ELSE Null

setCurrentSessionId(lc, st, sessionId) == IF CanWrite(st) THEN sessionId ELSE lc

\* generateSessionTitle cutting the text before trimming it
generateSessionTitle_CutsUntrimmed(messages) ==
    LET users == Matching(messages, LAMBDA m : m.role = "user")
    IN  IF users = {} THEN NewChat
        ELSE LET first == messages[Min(users)]
                 texts == Matching(first.parts, LAMBDA p : p.type = "text")
             IN  IF texts = {} THEN NewChat
                 ELSE LET raw == first.parts[Min(texts)].text
                      IN  IF raw = <<>> THEN NewChat
                          ELSE IF Len(raw) > TitleLimit
                               THEN Trim(SubSeq(raw, 1, TitleLimit)) \o Ellipsis
                               ELSE Trim(raw)

generateSessionTitle(messages) ==
    LET users == Matching(messages, LAMBDA m : m.role = "user")
    IN  IF users = {} THEN NewChat
        ELSE LET first == messages[Min(users)]
                 texts == Matching(first.parts, LAMBDA p : p.type = "text")
             IN  IF texts = {} THEN NewChat
                 ELSE LET raw == first.parts[Min(texts)].text
                      IN  IF raw = <<>> THEN NewChat
                          ELSE LET text == Trim(raw)
                               IN  IF Len(text) > TitleLimit
                                   THEN SubSeq(text, 1, TitleLimit) \o Ellipsis
                                   ELSE text

GroupLabels == <<"Today", "Yesterday", "Last 7 Days", "Last 30 Days", "Older">>

\* new Date(now.getFullYear(), now.getMonth(), now.getDate()): local midnight
StartOfDay(t) == t - (t % DayLength)

\* groupSessionsByDate comparing with > where the code compares with >=
GroupIndex_Exclusive(session, t) ==
    LET today == StartOfDay(t)
        yesterday == today - YesterdayDays * DayLength
        lastWeek == today - WeekDays * DayLength
        lastMonth == today - MonthDays * DayLength
        sessionDate == session.updatedAt
    IN  IF sessionDate > today THEN 1
        ELSE IF sessionDate > yesterday THEN 2
        ELSE IF sessionDate > lastWeek THEN 3
        ELSE IF sessionDate > lastMonth THEN 4
        ELSE 5

\* the index of the group the forEach pushes the session into
GroupIndex(session, t) ==
    LET today == StartOfDay(t)
        yesterday == today - YesterdayDays * DayLength
        lastWeek == today - WeekDays * DayLength
        lastMonth == today - MonthDays * DayLength
        sessionDate == session.updatedAt
    IN  IF sessionDate >= today THEN 1
        ELSE IF sessionDate >= yesterday THEN 2
        ELSE IF sessionDate >= lastWeek THEN 3
        ELSE IF sessionDate >= lastMonth THEN 4
        ELSE 5

\* groupSessionsByDate without the final filter of empty groups
groupSessionsByDate_KeepsEmpty(list, t) ==
    [i \in 1..Len(GroupLabels) |->
        [label |-> GroupLabels[i],
         sessions |-> SelectSeq(list, LAMBDA s : GroupIndex(s, t) = i)]]

groupSessionsByDate(list, t) ==
    LET groups == [i \in 1..Len(GroupLabels) |->
                     [label |-> GroupLabels[i],
                      sessions |-> SelectSeq(list, LAMBDA s : GroupIndex(s, t) = i)]]
    IN  SelectSeq(groups, LAMBDA g : Len(g.sessions) > 0)

----------------------------------------------------------------------------
(* The Home component: what a render sees, and its effects *)

\* The component reads the transport's status only through isLoading, so the
\* two resting values of useChat().status (ready, error) are one value, idle.
isLoadingOf(st) == st = "streaming" \/ st = "submitted"
isLoading == isLoadingOf(status)

\* the state a render reads
View ==
    [cur |-> currentSessionId, act |-> activeStreamingSessionId,
     msgs |-> streamMessages, status |-> status, disp |-> displayMessages,
     sess |-> sessions, ls |-> lsSessions]

\* dependency lists: [streamMessages, activeStreamingSessionId, currentSessionId]
\* and [isLoading, activeStreamingSessionId]
MessageDepsChanged(p, r) == r.msgs # p.msgs \/ r.act # p.act \/ r.cur # p.cur
LoadingDepsChanged(p, r) ==
    isLoadingOf(r.status) # isLoadingOf(p.status) \/ r.act # p.act

\* "Sync stream messages to display when viewing the active streaming session"
SyncDisplayEffect(p, r) ==
    MessageDepsChanged(p, r) /\ r.act # Null /\ r.cur = r.act

\* "Clear active streaming session when stream completes"
ClearActiveEffect(p, r) ==
    LoadingDepsChanged(p, r) /\ ~isLoadingOf(r.status) /\ r.act # Null

\* a save effect that saves only the session on screen
SaveSessionEffect_DisplayedOnly(p, r) ==
    MessageDepsChanged(p, r) /\ r.msgs # <<>> /\ r.act # Null /\ r.cur = r.act

\* a save effect that saves completed exchanges only
SaveSessionEffect_OnlyAfterReply(p, r) ==
    /\ MessageDepsChanged(p, r) /\ r.msgs # <<>> /\ r.act # Null
    /\ r.msgs[Len(r.msgs)].role = "assistant"

\* "Save streaming session whenever stream messages change": does it save
SaveSessionEffect(p, r) ==
    MessageDepsChanged(p, r) /\ r.msgs # <<>> /\ r.act # Null

\* a record that leaves out the message still being written
SessionRecord_WithoutLast(r, t) ==
    [id |-> r.act, title |-> generateSessionTitle(r.msgs),
     messages |-> Slice(r.msgs, Len(r.msgs) - 1),
     createdAt |-> t, updatedAt |-> t]

\* the record the save effect builds
SessionRecord(r, t) ==
    [id |-> r.act, title |-> generateSessionTitle(r.msgs), messages |-> r.msgs,
     createdAt |-> t, updatedAt |-> t]

\* one commit: every effect whose dependencies changed runs on the values of
\* render r (p is the previous render), and queues its state updates
Effects(p, r, st, t) ==
    LET save == SaveSessionEffect(p, r)
        ls2  == IF save THEN saveSession(r.ls, st, SessionRecord(r, t)) ELSE r.ls
    IN  [cur    |-> r.cur,
         act    |-> IF ClearActiveEffect(p, r) THEN Null ELSE r.act,
         msgs   |-> r.msgs,
         status |-> r.status,
         disp   |-> IF SyncDisplayEffect(p, r) \/ (save /\ r.cur = r.act)
                    THEN r.msgs ELSE r.disp,
         sess   |-> IF save THEN getAllSessions(ls2, st) ELSE r.sess,
         ls     |-> ls2]

\* renders and commits until the state is stable (the second commit sees the
\* updates queued by the first)
Render(p, r, st, t) ==
    LET r1 == Effects(p, r, st, t)
    IN  Effects(r, r1, st, t)

\* a handler left the component in r: re-render, run the effects, publish
Commit(r) ==
    LET f == Render(View, r, storage, now)
    IN  /\ currentSessionId' = f.cur
        /\ activeStreamingSessionId' = f.act
        /\ streamMessages' = f.msgs
        /\ status' = f.status
        /\ displayMessages' = f.disp
        /\ sessions' = f.sess
        /\ lsSessions' = f.ls

\* history variable: the send / regenerate / edit that started response `job`
\* while the transport was at rest, the live list it left behind, and whether
\* a chunk of the response arrived while another session was displayed. It is
\* reset when the response ends or another operation replaces the live list.
NoOp == [kind |-> "none", job |-> Null, list |-> <<>>, away |-> FALSE]
Started(kind, job, list) ==
    IF DOMAIN jobs = {} /\ ~isLoading
    THEN [kind |-> kind, job |-> job, list |-> list, away |-> FALSE]
    ELSE NoOp

----------------------------------------------------------------------------
(* The transport behind useChat *)

JobIds == DOMAIN jobs

\* can the transport take one more send (bounds of the model)
CanSend == sent < MaxSends /\ Cardinality(JobIds) < MaxJobs

\* sendMessage({parts}): push the user message, status submitted (synchronous part)
sendMessage(r, parts) ==
    [r EXCEPT !.msgs = Append(r.msgs, UserMessage(nextId, parts)),
              !.status = "submitted"]

\* makeRequest: a new active response with a fresh assistant message id
StartResponse ==
    /\ jobs' = [j \in JobIds \cup {nextId + 1} |->
                  IF j = nextId + 1 THEN [tokens |-> 0] ELSE jobs[j]]
    /\ activeResponse' = nextId + 1
    /\ nextId' = nextId + 2
    /\ sent' = sent + 1

\* write(): replace the last message if it is this response's, else push it
WriteMessage(msgs, m) ==
    IF msgs # <<>> /\ msgs[Len(msgs)].id = m.id
    THEN [msgs EXCEPT ![Len(msgs)] = m]
    ELSE Append(msgs, m)

\* the end of response j: it leaves the transport, activeResponse is reset
EndResponse(j) ==
    /\ jobs' = [k \in JobIds \ {j} |-> jobs[k]]
    /\ activeResponse' = Null
    /\ op' = IF op.job = j THEN NoOp ELSE op
    /\ UNCHANGED <<nextId, sent>>

\* `sessionId = currentSessionId || "session-" + Date.now()`
CanMint(cur) == cur # Null \/ nextSession <= MaxSessions
SessionIdFor(cur) == IF cur # Null THEN cur ELSE nextSession

\* the start of a send shared by handleSubmit, handleWhiteboardSave and
\* handleImageUpload: create or use the session, mark it streaming, send
BeginSend(cur, parts) ==
    /\ CanSend /\ CanMint(cur)
    /\ LET sessionId == SessionIdFor(cur)
           r == [View EXCEPT !.cur = IF cur = Null THEN sessionId ELSE @,
                             !.act = sessionId]
           s == sendMessage(r, parts)
       IN  /\ Commit(s)
           /\ op' = Started("send", nextId + 1, s.msgs)
    /\ lsCurrent' = IF cur = Null
                    THEN setCurrentSessionId(lsCurrent, storage, SessionIdFor(cur))
                    ELSE lsCurrent
    /\ nextSession' = IF cur = Null THEN nextSession + 1 ELSE nextSession
    /\ StartResponse

----------------------------------------------------------------------------
(* The state after the page has been opened *)

\* a fresh browser
InitFresh ==
    /\ currentSessionId = Null
    /\ streamMessages = <<>>
    /\ displayMessages = <<>>
    /\ sessions = <<>>
    /\ lsSessions = Absent
    /\ lsCurrent = Null
    /\ nextId = 1
    /\ nextSession = 1

\* a browser that holds one conversation of two exchanges, shown on opening
EarlierMessages ==
    << UserMessage(1, <<TextPart(<<"a">>)>>), AssistantMessage(2, 1),
       UserMessage(3, <<TextPart(<<"a">>)>>), AssistantMessage(4, 1) >>
EarlierSession ==
    [id |-> 1, title |-> generateSessionTitle(EarlierMessages),
     messages |-> EarlierMessages, createdAt |-> 0, updatedAt |-> 0]

InitReturning ==
    /\ currentSessionId = 1
    /\ streamMessages = EarlierMessages
    /\ displayMessages = EarlierMessages
    /\ sessions = <<EarlierSession>>
    /\ lsSessions = Stored(<<Serialize(EarlierSession)>>)
    /\ lsCurrent = 1
    /\ nextId = 5
    /\ nextSession = 2

Init ==
    /\ InitFresh \/ InitReturning
    /\ activeStreamingSessionId = Null
    /\ status = "idle"
    /\ ocr = NoOcr
    /\ storage = "ok"
    /\ jobs = <<>>
    /\ activeResponse = Null
    /\ sent = 0
    /\ now = 0
    /\ op = NoOp

----------------------------------------------------------------------------
(* Handlers of the Home component *)

\* handleSubmit: the text box
\* handleSubmit refusing to send when the storage cannot be written
handleSubmit_NeedsStorage(input) ==
    IF Trim(input) = <<>> \/ isLoading \/ ~CanWrite(storage)
    THEN UNCHANGED vars
    ELSE /\ BeginSend(currentSessionId, <<TextPart(Trim(input))>>)
         /\ UNCHANGED <<ocr, storage, now>>

handleSubmit(input) ==
    IF Trim(input) = <<>> \/ isLoading
    THEN UNCHANGED vars
    ELSE /\ BeginSend(currentSessionId, <<TextPart(Trim(input))>>)
         /\ UNCHANGED <<ocr, storage, now>>

\* handleWhiteboardSave; the whiteboard button is disabled={isLoading || isExtracting}
handleWhiteboardSave ==
    /\ ~isLoading /\ ocr = NoOcr
    /\ BeginSend(currentSessionId, <<TextPart(WhiteboardText), FilePart(WhiteboardUrl)>>)
    /\ UNCHANGED <<ocr, storage, now>>

\* handleImageUpload up to `await fetch("/api/extract-math")`; the attachment
\* menu is disabled={isLoading || isExtracting}. The running call keeps the
\* currentSessionId of the render that started it.
handleImageUpload ==
    /\ ~isLoading /\ ocr = NoOcr
    /\ ocr' = currentSessionId
    /\ UNCHANGED <<viewVars, chatVars, lsCurrent, storage, nextSession, now, op>>

\* handleImageUpload after the OCR response: success sends the extracted problem
OcrResponse(success) ==
    /\ ocr # NoOcr
    /\ ocr' = NoOcr
    /\ IF success
       THEN /\ BeginSend(ocr, <<TextPart(OcrText)>>)
            /\ UNCHANGED <<storage, now>>
       ELSE UNCHANGED <<viewVars, chatVars, lsCurrent, storage, nextSession, now, op>>

\* a handleNewSession that leaves the messages of the previous session on screen
handleNewSession_KeepsDisplay ==
    /\ Commit([View EXCEPT !.msgs = <<>>, !.cur = Null, !.act = Null])
    /\ lsCurrent' = setCurrentSessionId(lsCurrent, storage, EmptyId)
    /\ op' = NoOp
    /\ UNCHANGED <<chatVars, ocr, storage, nextSession, now>>

\* handleNewSession (also the inlined copy behind Cmd/Ctrl+N)
handleNewSession ==
    /\ Commit([View EXCEPT !.disp = <<>>, !.msgs = <<>>, !.cur = Null, !.act = Null])
    /\ lsCurrent' = setCurrentSessionId(lsCurrent, storage, EmptyId)
    /\ op' = NoOp
    /\ UNCHANGED <<chatVars, ocr, storage, nextSession, now>>

\* a handleSelectSession that moves the running stream to the selected session
handleSelectSession_Rebinding(sessionId) ==
    LET index == FindIndex(sessions, sessionId)
    IN  IF index = 0
        THEN UNCHANGED vars
        ELSE /\ Commit([View EXCEPT
                    !.cur = sessionId,
                    !.act = IF @ # Null THEN sessionId ELSE @,
                    !.disp = streamMessages])
             /\ lsCurrent' = setCurrentSessionId(lsCurrent, storage, sessionId)
             /\ UNCHANGED <<chatVars, ocr, storage, nextSession, now, op>>

\* a handleSelectSession that loads the selected session into the live list
handleSelectSession_LoadsIntoLive(sessionId) ==
    LET index == FindIndex(sessions, sessionId)
    IN  IF index = 0
        THEN UNCHANGED vars
        ELSE /\ Commit([View EXCEPT
                    !.cur = sessionId,
                    !.msgs = IF sessionId = activeStreamingSessionId
                             THEN @ ELSE sessions[index].messages,
                    !.disp = IF sessionId = activeStreamingSessionId
                             THEN streamMessages
                             ELSE sessions[index].messages])
             /\ lsCurrent' = setCurrentSessionId(lsCurrent, storage, sessionId)
             /\ UNCHANGED <<chatVars, ocr, storage, nextSession, now, op>>

\* handleSelectSession
handleSelectSession(sessionId) ==
    LET index == FindIndex(sessions, sessionId)
    IN  IF index = 0
        THEN UNCHANGED vars
        ELSE /\ Commit([View EXCEPT
                    !.cur = sessionId,
                    !.disp = IF sessionId = activeStreamingSessionId
                             THEN streamMessages
                             ELSE sessions[index].messages])
             /\ lsCurrent' = setCurrentSessionId(lsCurrent, storage, sessionId)
             /\ UNCHANGED <<chatVars, ocr, storage, nextSession, now, op>>

\* handleDeleteSession
handleDeleteSession(sessionId) ==
    LET ls2 == deleteSession(lsSessions, storage, sessionId)
        r   == [View EXCEPT !.ls = ls2, !.sess = getAllSessions(ls2, storage)]
    IN  IF sessionId = currentSessionId
        THEN /\ Commit([r EXCEPT !.disp = <<>>, !.msgs = <<>>, !.cur = Null, !.act = Null])
             /\ lsCurrent' = setCurrentSessionId(lsCurrent, storage, EmptyId)
             /\ op' = NoOp
             /\ UNCHANGED <<chatVars, ocr, storage, nextSession, now>>
        ELSE /\ Commit(r)
             /\ UNCHANGED <<chatVars, ocr, lsCurrent, storage, nextSession, now, op>>

\* handleRenameSession
handleRenameSession(sessionId, title) ==
    LET ls2 == updateSessionTitle(lsSessions, storage, sessionId, title, now)
    IN  /\ Commit([View EXCEPT !.ls = ls2, !.sess = getAllSessions(ls2, storage)])
        /\ UNCHANGED <<chatVars, ocr, lsCurrent, storage, nextSession, now, op>>

\* a handleRegenerateResponse that leaves the user message in the live list
\* before sending it again
handleRegenerateResponse_KeepsUser(messageIndex) ==
    LET messagesUpToUser == Slice(displayMessages, messageIndex)
        users == Matching(messagesUpToUser, LAMBDA m : m.role = "user")
    IN  IF users = {}
        THEN UNCHANGED vars
        ELSE LET userMessageIndex == Max(users) - 1
                 lastUserMessage == messagesUpToUser[userMessageIndex + 1]
                 r == [View EXCEPT
                         !.msgs = Slice(messagesUpToUser, userMessageIndex + 1),
                         !.act = IF currentSessionId # Null
                                 THEN currentSessionId ELSE @]
                 s == sendMessage(r, lastUserMessage.parts)
             IN  /\ CanSend
                 /\ Commit(s)
                 /\ StartResponse
                 /\ op' = Started("regenerate", nextId + 1, s.msgs)
                 /\ UNCHANGED <<ocr, lsCurrent, storage, nextSession, now>>

\* a handleRegenerateResponse without `if (!lastUserMessage) return`: with no
\* user message lastIndexOf gives -1, slice(0, -1) drops the last message, the
\* session is bound, and reading the parts of the missing message throws
\* before anything is sent
handleRegenerateResponse_Unguarded(messageIndex) ==
    LET messagesUpToUser == Slice(displayMessages, messageIndex)
        users == Matching(messagesUpToUser, LAMBDA m : m.role = "user")
    IN  IF users = {}
        THEN /\ Commit([View EXCEPT
                    !.msgs = Slice(messagesUpToUser, Max({1, Len(messagesUpToUser)}) - 1),
                    !.act = IF currentSessionId # Null
                            THEN currentSessionId ELSE @])
             /\ op' = NoOp
             /\ UNCHANGED <<chatVars, ocr, lsCurrent, storage, nextSession, now>>
        ELSE LET userMessageIndex == Max(users) - 1
                 lastUserMessage == messagesUpToUser[userMessageIndex + 1]
                 r == [View EXCEPT
                         !.msgs = Slice(messagesUpToUser, userMessageIndex),
                         !.act = IF currentSessionId # Null
                                 THEN currentSessionId ELSE @]
                 s == sendMessage(r, lastUserMessage.parts)
             IN  /\ CanSend
                 /\ Commit(s)
                 /\ StartResponse
                 /\ op' = Started("regenerate", nextId + 1, s.msgs)
                 /\ UNCHANGED <<ocr, lsCurrent, storage, nextSession, now>>

\* handleRegenerateResponse(messageIndex), messageIndex counted from 0
handleRegenerateResponse(messageIndex) ==
    LET messagesUpToUser == Slice(displayMessages, messageIndex)
        users == Matching(messagesUpToUser, LAMBDA m : m.role = "user")
    IN  IF users = {}
        THEN UNCHANGED vars
        ELSE LET userMessageIndex == Max(users) - 1
                 lastUserMessage == messagesUpToUser[userMessageIndex + 1]
                 messagesBeforeUser == Slice(messagesUpToUser, userMessageIndex)
                 r == [View EXCEPT
                         !.msgs = messagesBeforeUser,
                         !.act = IF currentSessionId # Null
                                 THEN currentSessionId ELSE @]
                 s == sendMessage(r, lastUserMessage.parts)
             IN  /\ CanSend
                 /\ Commit(s)
                 /\ StartResponse
                 /\ op' = Started("regenerate", nextId + 1, s.msgs)
                 /\ UNCHANGED <<ocr, lsCurrent, storage, nextSession, now>>

\* a handleSaveEdit that keeps the edited message and appends the new text
handleSaveEdit_KeepsOriginal(messageIndex, editingText) ==
    IF Trim(editingText) = <<>>
    THEN UNCHANGED vars
    ELSE LET r == [View EXCEPT
                     !.msgs = Slice(displayMessages, messageIndex + 1),
                     !.act = IF currentSessionId # Null
                             THEN currentSessionId ELSE @]
             s == sendMessage(r, <<TextPart(Trim(editingText))>>)
         IN  /\ CanSend
             /\ Commit(s)
             /\ StartResponse
             /\ op' = Started("edit", nextId + 1, s.msgs)
             /\ UNCHANGED <<ocr, lsCurrent, storage, nextSession, now>>

\* handleSaveEdit(messageIndex) with the edit box holding editingText
handleSaveEdit(messageIndex, editingText) ==
    IF Trim(editingText) = <<>>
    THEN UNCHANGED vars
    ELSE LET messagesBeforeEdit == Slice(displayMessages, messageIndex)
             r == [View EXCEPT
                     !.msgs = messagesBeforeEdit,
                     !.act = IF currentSessionId # Null
                             THEN currentSessionId ELSE @]
             s == sendMessage(r, <<TextPart(Trim(editingText))>>)
         IN  /\ CanSend
             /\ Commit(s)
             /\ StartResponse
             /\ op' = Started("edit", nextId + 1, s.msgs)
             /\ UNCHANGED <<ocr, lsCurrent, storage, nextSession, now>>

\* stopGeneration (the Stop button and Escape, both only while isLoading): the
\* transport aborts its active response, if it has one, and comes to rest
stopGeneration ==
    /\ isLoading
    /\ IF activeResponse # Null
       THEN /\ EndResponse(activeResponse)
            /\ Commit([View EXCEPT !.status = "idle"])
       ELSE UNCHANGED <<viewVars, chatVars, op>>
    /\ UNCHANGED <<ocr, lsCurrent, storage, nextSession, now>>

----------------------------------------------------------------------------
(* Events of the transport *)

\* a chunk of response j arrives: status streaming, the message is written
StreamChunk(j) ==
    /\ j \in JobIds /\ jobs[j].tokens < MaxTokens
    /\ jobs' = [jobs EXCEPT ![j].tokens = @ + 1]
    /\ Commit([View EXCEPT
          !.status = "streaming",
          !.msgs = WriteMessage(@, AssistantMessage(j, jobs[j].tokens + 1))])
    /\ op' = IF op.job = j /\ currentSessionId # activeStreamingSessionId
             THEN [op EXCEPT !.away = TRUE] ELSE op
    /\ UNCHANGED <<activeResponse, nextId, sent, ocr, lsCurrent, storage, nextSession,
                   now>>

\* response j completes; a completed response has delivered at least one chunk
StreamFinish(j) ==
    /\ j \in JobIds /\ jobs[j].tokens >= 1
    /\ EndResponse(j)
    /\ Commit([View EXCEPT !.status = "idle"])
    /\ UNCHANGED <<ocr, lsCurrent, storage, nextSession, now>>

\* a failed response that leaves the status where it was
StreamError_KeepsStatus(j) ==
    /\ j \in JobIds
    /\ EndResponse(j)
    /\ Commit(View)
    /\ UNCHANGED <<ocr, lsCurrent, storage, nextSession, now>>

\* response j fails (network, endpoint error)
StreamError(j) ==
    /\ j \in JobIds
    /\ EndResponse(j)
    /\ Commit([View EXCEPT !.status = "idle"])
    /\ UNCHANGED <<ocr, lsCurrent, storage, nextSession, now>>

----------------------------------------------------------------------------
(* Environment *)

Tick ==
    /\ now < MaxTime
    /\ now' = now + 1
    /\ UNCHANGED <<viewVars, chatVars, ocr, lsCurrent, storage, nextSession, op>>

\* the page is reloaded: "Initialize sessions and current session on mount"
Mount ==
    LET allSessions == getAllSessions(lsSessions, storage)
        savedSessionId == getCurrentSessionId(lsCurrent, storage)
        index == FindIndex(allSessions, savedSessionId)
        found == savedSessionId # Null /\ savedSessionId # EmptyId /\ index >= 1
        fresh == [cur |-> Null, act |-> Null, msgs |-> <<>>, status |-> "idle",
                  disp |-> <<>>, sess |-> <<>>, ls |-> lsSessions]
        r == [fresh EXCEPT
                !.sess = allSessions,
                !.cur  = IF found THEN savedSessionId ELSE Null,
                !.disp = IF found THEN allSessions[index].messages ELSE <<>>,
                !.msgs = IF found THEN allSessions[index].messages ELSE <<>>]
        f == Render(fresh, r, storage, now)
    IN  /\ currentSessionId' = f.cur
        /\ activeStreamingSessionId' = f.act
        /\ streamMessages' = f.msgs
        /\ status' = f.status
        /\ displayMessages' = f.disp
        /\ sessions' = f.sess
        /\ lsSessions' = f.ls
        /\ ocr' = NoOcr
        /\ jobs' = <<>>
        /\ activeResponse' = Null
        /\ op' = NoOp
        /\ UNCHANGED <<lsCurrent, storage, nextId, nextSession, sent, now>>

----------------------------------------------------------------------------
(* What the user can click *)

AssistantIndices ==
    { i \in 0..(Len(displayMessages) - 1) : displayMessages[i + 1].role = "assistant" }
UserIndices ==
    { i \in 0..(Len(displayMessages) - 1) : displayMessages[i + 1].role = "user" }
ListedIds == { sessions[i].id : i \in 1..Len(sessions) }

\* the conversation engine: sending, regenerating, editing, switching,
\* deleting, stopping, reloading
Next ==
    \/ \E input \in Inputs : handleSubmit(input)
    \/ \E i \in AssistantIndices : handleRegenerateResponse(i)
    \/ \E i \in UserIndices, text \in Inputs : handleSaveEdit(i, text)
    \/ handleNewSession
    \/ \E id \in ListedIds : handleSelectSession(id)
    \/ \E id \in ListedIds : handleDeleteSession(id)
    \/ stopGeneration
    \/ \E j \in JobIds : StreamChunk(j)
    \/ \E j \in JobIds : StreamFinish(j)
    \/ \E j \in JobIds : StreamError(j)
    \/ Mount

Spec == Init /\ [][Next]_vars

\* the transport is fair: a response that is under way completes or fails
ResponseEnds == \E j \in JobIds : StreamFinish(j) \/ StreamError(j)
SpecLive == Init /\ [][Next]_vars /\ WF_vars(ResponseEnds)

\* the entry points of a send: text, whiteboard, image upload
NextEntry ==
    \/ \E input \in Inputs : handleSubmit(input)
    \/ handleWhiteboardSave
    \/ handleImageUpload
    \/ \E success \in BOOLEAN : OcrResponse(success)
    \/ handleNewSession
    \/ \E id \in ListedIds : handleSelectSession(id)
    \/ \E j \in JobIds : StreamChunk(j)
    \/ \E j \in JobIds : StreamFinish(j)

SpecEntry == Init /\ [][NextEntry]_vars

\* the history operations called with any index, also one that no button of
\* the page passes: beyond the end of the list, or of a message of the wrong role
AnyIndices == 0..(Len(displayMessages) + 1)

NextIndex ==
    \/ \E i \in AnyIndices : handleRegenerateResponse(i)
    \/ \E i \in AnyIndices, text \in Inputs : handleSaveEdit(i, text)
    \/ \E j \in JobIds : StreamChunk(j)
    \/ \E j \in JobIds : StreamFinish(j)
    \/ \E j \in JobIds : StreamError(j)

SpecIndex == Init /\ [][NextIndex]_vars

----------------------------------------------------------------------------
(* The session store called directly *)

\* message lists and records a caller hands to saveSession
StoreLists ==
    { EarlierMessages, <<UserMessage(1, <<TextPart(<<"b">>)>>)>> }
StoreSessions ==
    UNION { { [id |-> i, title |-> t, messages |-> m, createdAt |-> now, updatedAt |-> now] :
                i \in 1..MaxSessions, t \in {generateSessionTitle(m)} \cup Titles } :
            m \in StoreLists }

\* history of a store call: its name (marked when the storage refused the
\* write), the id it was given, and the messages it was given
StoreCall(name, id, list) ==
    [kind |-> IF CanWrite(storage) THEN name ELSE name \o " refused",
     job |-> id, list |-> list, away |-> FALSE]

CallSaveSession(session) ==
    /\ op' = StoreCall("saveSession", session.id, session.messages)
    /\ lsSessions' = saveSession(lsSessions, storage, session)
    /\ UNCHANGED <<currentSessionId, activeStreamingSessionId, streamMessages, status,
                   displayMessages, sessions, ocr, lsCurrent, storage, chatVars,
                   nextSession, now>>

CallDeleteSession(sessionId) ==
    /\ op' = StoreCall("deleteSession", sessionId, <<>>)
    /\ lsSessions' = deleteSession(lsSessions, storage, sessionId)
    /\ UNCHANGED <<currentSessionId, activeStreamingSessionId, streamMessages, status,
                   displayMessages, sessions, ocr, lsCurrent, storage, chatVars,
                   nextSession, now>>

CallUpdateSessionTitle(sessionId, title) ==
    /\ op' = StoreCall("updateSessionTitle", sessionId, <<>>)
    /\ lsSessions' = updateSessionTitle(lsSessions, storage, sessionId, title, now)
    /\ UNCHANGED <<currentSessionId, activeStreamingSessionId, streamMessages, status,
                   displayMessages, sessions, ocr, lsCurrent, storage, chatVars,
                   nextSession, now>>

CallSetCurrentSessionId(sessionId) ==
    /\ op' = StoreCall("setCurrentSessionId", sessionId, <<>>)
    /\ lsCurrent' = setCurrentSessionId(lsCurrent, storage, sessionId)
    /\ UNCHANGED <<currentSessionId, activeStreamingSessionId, streamMessages, status,
                   displayMessages, sessions, ocr, lsSessions, storage, chatVars,
                   nextSession, now>>

\* the browser's storage becomes available, full (setItem throws) or
\* disabled (every access throws)
StorageChanges(mode) ==
    /\ storage' = mode
    /\ UNCHANGED <<viewVars, chatVars, ocr, lsCurrent, nextSession, now, op>>

NextStore ==
    \/ \E session \in StoreSessions : CallSaveSession(session)
    \/ \E id \in 1..MaxSessions : CallDeleteSession(id)
    \/ \E id \in 1..MaxSessions, title \in Titles : CallUpdateSessionTitle(id, title)
    \/ \E id \in (1..MaxSessions) \cup {EmptyId} : CallSetCurrentSessionId(id)
    \/ \E mode \in {"ok", "quota", "disabled"} : StorageChanges(mode)

SpecStore == Init /\ [][NextStore]_vars

----------------------------------------------------------------------------
(* Titles *)

\* texts of exactly TitleLimit characters, one more, and TitleLimit
\* characters between spaces
TextAtLimit == [i \in 1..TitleLimit |-> "x"]
TextOverLimit == [i \in 1..(TitleLimit + 1) |-> "x"]
TextPadded == <<Space>> \o TextAtLimit \o <<Space>>
TitleInputs == { TextAtLimit, TextOverLimit, TextPadded }

\* conversations found in the browser's storage: without a user message,
\* with a first user message that has no text part, an empty one, a blank
\* one, a text part behind a file part, and a user message after an
\* assistant message
TitleLists ==
    { << AssistantMessage(2, 1) >>,
      << UserMessage(1, <<FilePart(WhiteboardUrl)>>), AssistantMessage(2, 1) >>,
      << UserMessage(1, <<TextPart(<<>>)>>), AssistantMessage(2, 1) >>,
      << UserMessage(1, <<TextPart(<<Space, Space>>)>>), AssistantMessage(2, 1) >>,
      << UserMessage(1, <<FilePart(WhiteboardUrl), TextPart(<<"b">>)>>),
         AssistantMessage(2, 1) >>,
      << AssistantMessage(2, 1), UserMessage(3, <<TextPart(TextPadded)>>),
         AssistantMessage(4, 1) >> }

\* the page opened on one of these conversations, stored under the title the
\* save effect gave it
InitTitle ==
    /\ \E list \in TitleLists :
          LET record == [id |-> 1, title |-> generateSessionTitle(list),
                         messages |-> list, createdAt |-> 0, updatedAt |-> 0]
          IN  /\ streamMessages = list
              /\ displayMessages = list
              /\ sessions = <<record>>
              /\ lsSessions = Stored(<<Serialize(record)>>)
    /\ currentSessionId = 1
    /\ lsCurrent = 1
    /\ nextId = 5
    /\ nextSession = 2
    /\ activeStreamingSessionId = Null
    /\ status = "idle"
    /\ ocr = NoOcr
    /\ storage = "ok"
    /\ jobs = <<>>
    /\ activeResponse = Null
    /\ sent = 0
    /\ now = 0
    /\ op = NoOp

NextTitle ==
    \/ \E input \in TitleInputs : handleSubmit(input)
    \/ handleNewSession
    \/ \E j \in JobIds : StreamChunk(j)
    \/ \E j \in JobIds : StreamFinish(j)

SpecTitle == InitTitle /\ [][NextTitle]_vars

----------------------------------------------------------------------------
(* The sidebar *)

\* a day more than a month after the epoch, at midnight and later that day
SidebarDay == (MonthDays + 2) * DayLength
SidebarNows == { SidebarDay, SidebarDay + 1 }

\* times on each boundary of groupSessionsByDate and one tick before it
SidebarTimes ==
    UNION { { SidebarDay - d * DayLength, SidebarDay - d * DayLength - 1 } :
            d \in {0, YesterdayDays, WeekDays, MonthDays} }

SidebarSession(id, t) ==
    [id |-> id, title |-> generateSessionTitle(EarlierMessages),
     messages |-> EarlierMessages, createdAt |-> t, updatedAt |-> t]

SidebarLists ==
    UNION { { [i \in 1..n |-> SidebarSession(i, f[i])] : f \in [1..n -> SidebarTimes] } :
            n \in 0..MaxListed }

\* the page opened on a browser that holds sessions last updated at any of
\* these times, none of them selected
InitSidebar ==
    /\ now \in SidebarNows
    /\ \E list \in SidebarLists :
          /\ sessions = list
          /\ lsSessions = Stored([i \in 1..Len(list) |-> Serialize(list[i])])
          /\ nextSession = Len(list) + 1
    /\ currentSessionId = Null
    /\ activeStreamingSessionId = Null
    /\ streamMessages = <<>>
    /\ displayMessages = <<>>
    /\ status = "idle"
    /\ ocr = NoOcr
    /\ lsCurrent = Null
    /\ storage = "ok"
    /\ jobs = <<>>
    /\ activeResponse = Null
    /\ nextId = 5
    /\ sent = 0
    /\ op = NoOp

NextSidebar ==
    \/ \E id \in ListedIds, title \in Titles : handleRenameSession(id, title)
    \/ \E id \in ListedIds : handleDeleteSession(id)

SpecSidebar == InitSidebar /\ [][NextSidebar]_vars

\* conversations while the storage fails and recovers
NextFailing ==
    \/ \E input \in Inputs : handleSubmit(input)
    \/ \E j \in JobIds : StreamChunk(j)
    \/ \E j \in JobIds : StreamFinish(j)
    \/ \E j \in JobIds : StreamError(j)
    \/ \E mode \in {"ok", "quota", "disabled"} : StorageChanges(mode)

SpecFailing == Init /\ [][NextFailing]_vars

\* conversations and renames while the clock advances
NextClock ==
    \/ \E input \in Inputs : handleSubmit(input)
    \/ handleNewSession
    \/ \E id \in ListedIds, title \in Titles : handleRenameSession(id, title)
    \/ \E j \in JobIds : StreamChunk(j)
    \/ \E j \in JobIds : StreamFinish(j)
    \/ Tick

SpecClock == Init /\ [][NextClock]_vars

----------------------------------------------------------------------------
(* Properties *)

\* the stored record of session id, as listAll returns it (id must be stored)
HasRecord(id) == FindIndex(getAllSessions(lsSessions, storage), id) >= 1
RecordOf(id) ==
    LET all == getAllSessions(lsSessions, storage)
    IN  all[FindIndex(all, id)]

\* the record stored under id in the store ls (id must be stored)
StoredRecord(ls, id) ==
    LET all == getAllSessions(ls, storage)
    IN  all[FindIndex(all, id)]

\* the ids stored in the store ls
StoredIds(ls) ==
    LET all == getAllSessions(ls, storage)
    IN  { all[i].id : i \in 1..Len(all) }

\* the messages stored under id in the store ls, none when id has no record
StoredMessages(ls, id) ==
    LET all == getAllSessions(ls, storage)
        index == FindIndex(all, id)
    IN  IF index = 0 THEN <<>> ELSE all[index].messages

\* what response j has delivered so far: one assistant message holding every
\* token received, each once and in order; nothing before the first token
Received(j) ==
    IF jobs[j].tokens = 0 THEN <<>> ELSE <<AssistantMessage(j, jobs[j].tokens)>>

\* the persisted record of the bound session is the live list under its derived title
BoundSessionPersisted ==
    /\ HasRecord(activeStreamingSessionId)
    /\ RecordOf(activeStreamingSessionId).id = activeStreamingSessionId
    /\ RecordOf(activeStreamingSessionId).messages = streamMessages
    /\ RecordOf(activeStreamingSessionId).title = generateSessionTitle(streamMessages)

\* C1: every step that changes the live message list and leaves a session
\* bound upserts {id: bound id, title: deriveTitle(live), messages: live}: right
\* after the step the stored record of the bound session holds the live list,
\* whether or not the bound session is the one displayed.
C1_MutationPersisted ==
    [][ (streamMessages' # streamMessages /\ activeStreamingSessionId' # Null)
        => BoundSessionPersisted' ]_vars

\* C1 witness: a chunk arrived while another session was displayed, and the
\* bound session's record holds the live list with that chunk.
C1_Witness ==
    /\ op.away
    /\ activeStreamingSessionId # Null
    /\ currentSessionId # activeStreamingSessionId
    /\ BoundSessionPersisted
    /\ streamMessages[Len(streamMessages)].role = "assistant"

\* C2: handleSelectSession while the status is submitted or streaming leaves
\* the status, the bound session id, the live list and the responses in flight
\* as they were; and a chunk that arrives while another session is displayed
\* is written into the record of the session the stream is bound to, the
\* binding and the displayed session staying as they are.
C2_SwitchKeepsStream ==
    [][ /\ \A id \in ListedIds :
            (isLoading /\ handleSelectSession(id)) =>
                /\ status' = status
                /\ activeStreamingSessionId' = activeStreamingSessionId
                /\ streamMessages' = streamMessages
                /\ jobs' = jobs
                /\ activeResponse' = activeResponse
        /\ \A j \in JobIds :
            ( /\ StreamChunk(j)
              /\ activeStreamingSessionId # Null
              /\ currentSessionId # activeStreamingSessionId ) =>
                /\ activeStreamingSessionId' = activeStreamingSessionId
                /\ currentSessionId' = currentSessionId
                /\ BoundSessionPersisted'
                /\ streamMessages' =
                     WriteMessage(streamMessages, AssistantMessage(j, jobs[j].tokens + 1))
      ]_vars

\* C2 witness: the user switched to another stored session during a response,
\* the response is still running, and a chunk of it has since been saved
\* under the session the stream is bound to.
C2_Witness ==
    /\ isLoading /\ op.away
    /\ activeStreamingSessionId # Null
    /\ currentSessionId # Null
    /\ currentSessionId # activeStreamingSessionId
    /\ op.job \in JobIds
    /\ HasRecord(activeStreamingSessionId)
    /\ LET m == RecordOf(activeStreamingSessionId).messages
       IN  m # <<>> /\ m[Len(m)].id = op.job

\* C3: for a response started at rest (op), whatever the user displays in
\* the meantime: the live list is the list the operation left followed by
\* every token received so far, once; whenever the stream's session is the
\* one displayed, the display is that live list; when the response ends
\* (finish, error, stop) the record of its session, unless the user deleted
\* it in the meantime, holds the same list; and selecting a session the stream is not bound to displays its stored record.
C3_NoTokenLostOrDuplicated ==
    /\ [](op.job # Null =>
            /\ op.job \in JobIds
            /\ activeStreamingSessionId # Null
            /\ streamMessages = op.list \o Received(op.job)
            /\ (currentSessionId = activeStreamingSessionId
                    => displayMessages = streamMessages))
    /\ [][ /\ ( /\ op.job # Null
                /\ HasRecord(activeStreamingSessionId)
                /\ StreamFinish(op.job) \/ StreamError(op.job) \/ stopGeneration ) =>
                  StoredMessages(lsSessions', activeStreamingSessionId)
                      = op.list \o Received(op.job)
          /\ \A id \in ListedIds :
                (handleSelectSession(id) /\ id # activeStreamingSessionId) =>
                  displayMessages' = StoredMessages(lsSessions, id)
        ]_vars

\* C3 witness: a token arrived while another session was displayed, the user
\* is back on the streaming session before the response has ended, and the
\* display holds the operation's list followed by that token.
C3_Witness ==
    /\ op.job \in JobIds /\ op.away
    /\ jobs[op.job].tokens >= 1
    /\ isLoading
    /\ currentSessionId = activeStreamingSessionId
    /\ displayMessages = op.list \o <<AssistantMessage(op.job, jobs[op.job].tokens)>>

\* C4: in every state the displayed messages are empty when no session is
\* displayed, the live list when the displayed session is the bound one, and
\* otherwise the messages stored for the displayed session.
C4_DisplayProjection ==
    /\ currentSessionId = Null => displayMessages = <<>>
    /\ (currentSessionId # Null /\ currentSessionId = activeStreamingSessionId)
          => displayMessages = streamMessages
    /\ (currentSessionId # Null /\ currentSessionId # activeStreamingSessionId)
          => displayMessages = StoredMessages(lsSessions, currentSessionId)

\* C4 witness: a stream runs in the background and has delivered a token;
\* the displayed session is another one and shows its own stored messages,
\* which are not the live list.
C4_Witness ==
    /\ activeStreamingSessionId # Null
    /\ currentSessionId # Null
    /\ currentSessionId # activeStreamingSessionId
    /\ status = "streaming"
    /\ displayMessages # <<>>
    /\ displayMessages # streamMessages
    /\ displayMessages = StoredMessages(lsSessions, currentSessionId)

\* C5: whenever the status is submitted or streaming, a session is bound
\* (activeStreamingSessionId is a session id). The code breaks it:
\* handleNewSession, and handleDeleteSession of the displayed session, reset
\* activeStreamingSessionId without stopping the response in flight.
C5_BoundWhileLoading ==
    isLoading => activeStreamingSessionId # Null

\* C6: the status changes only from idle to submitted, from submitted to
\* streaming, and from submitted or streaming to idle. The code breaks it:
\* handleRegenerateResponse and handleSaveEdit send while a response is
\* streaming (streaming -> submitted), and of the two responses then in
\* flight one can end (idle) before the other delivers a chunk (idle ->
\* streaming).
C6_StatusTransitions ==
    [][ \/ status' = status
        \/ status = "idle" /\ status' = "submitted"
        \/ status = "submitted" /\ status' = "streaming"
        \/ isLoading /\ status' = "idle"
      ]_vars

\* C7: a send that begins at rest (idle -> submitted) with no session
\* displayed mints a session id, which becomes the displayed id, the bound id
\* and the stored current-session pointer; with a session displayed it mints
\* nothing and binds the displayed session. The code breaks it: the send
\* issued by handleImageUpload after the OCR response uses the
\* currentSessionId of the render in which the upload began.
C7_SendBinding ==
    [][ (status = "idle" /\ status' = "submitted" /\ sent' = sent + 1) =>
          IF currentSessionId = Null
          THEN /\ nextSession' = nextSession + 1
               /\ currentSessionId' = nextSession
               /\ activeStreamingSessionId' = nextSession
               /\ getCurrentSessionId(lsCurrent', storage) = nextSession
          ELSE /\ nextSession' = nextSession
               /\ currentSessionId' = currentSessionId
               /\ activeStreamingSessionId' = currentSessionId
      ]_vars

\* is there a user message among the first i messages of list
HasUserBefore(list, i) == \E k \in 1..i : list[k].role = "user"

\* the position (from 1) of the nearest user message among the first i
NearestUserBefore(list, i) ==
    CHOOSE k \in 1..i :
        /\ list[k].role = "user"
        /\ \A m \in (k + 1)..i : list[m].role # "user"

\* C8: regenerating the assistant message at index i (from 0) of the displayed
\* list, with U the nearest user message before it, makes the live list the
\* messages strictly before U followed by one new user message with U's
\* parts, binds the displayed session and submits; and when the response of a
\* regenerate started at rest completes, the live list is that list followed
\* by exactly one assistant message, the new response.
C8_Regenerate ==
    [][ /\ \A i \in AssistantIndices :
            (HasUserBefore(displayMessages, i) /\ handleRegenerateResponse(i)) =>
                LET u == NearestUserBefore(displayMessages, i)
                IN  /\ streamMessages' =
                          SubSeq(displayMessages, 1, u - 1)
                          \o <<UserMessage(nextId, displayMessages[u].parts)>>
                    /\ status' = "submitted"
                    /\ (nextId + 1) \in DOMAIN jobs'
                    /\ currentSessionId # Null =>
                          /\ activeStreamingSessionId' = currentSessionId
                          /\ displayMessages' = streamMessages'
                    /\ (~isLoading /\ jobs = <<>>) => op'.list = streamMessages'
        /\ (op.kind = "regenerate" /\ StreamFinish(op.job)) =>
                /\ streamMessages' =
                      op.list \o <<AssistantMessage(op.job, jobs[op.job].tokens)>>
                /\ status' = "idle"
                /\ jobs' = <<>>
      ]_vars

\* C8 witness: [U1, A1, U2, A2] regenerated at A2; the live list is [U1, A1],
\* a new user message with U2's parts, and the new assistant message.
C8_Witness ==
    /\ op.kind = "regenerate"
    /\ jobs[op.job].tokens >= 1
    /\ Len(streamMessages) = 4
    /\ SubSeq(streamMessages, 1, 2) = SubSeq(EarlierMessages, 1, 2)
    /\ streamMessages[3].role = "user"
    /\ streamMessages[3].parts = EarlierMessages[3].parts
    /\ streamMessages[3].id # EarlierMessages[3].id
    /\ streamMessages[4] = AssistantMessage(op.job, jobs[op.job].tokens)

\* C9, with the trimming the handler applies: saving an edit of the user
\* message at index i (from 0) of the displayed list with a non-blank text
\* drops message i and every later message and submits one new user message
\* whose only part is that text with its surrounding whitespace trimmed, so
\* the live list is the first i messages followed by it; the displayed
\* session is bound; and when the response of an edit started at rest
\* completes, the live list is that list followed by exactly one assistant
\* message, the new response.
C9_EditAndBranch ==
    [][ /\ \A i \in UserIndices, text \in Inputs :
            (Trim(text) # <<>> /\ handleSaveEdit(i, text)) =>
                /\ streamMessages' =
                      SubSeq(displayMessages, 1, i)
                      \o <<UserMessage(nextId, <<TextPart(Trim(text))>>)>>
                /\ status' = "submitted"
                /\ (nextId + 1) \in DOMAIN jobs'
                /\ currentSessionId # Null =>
                      /\ activeStreamingSessionId' = currentSessionId
                      /\ displayMessages' = streamMessages'
                /\ (~isLoading /\ jobs = <<>>) => op'.list = streamMessages'
        /\ (op.kind = "edit" /\ StreamFinish(op.job)) =>
                /\ streamMessages' =
                      op.list \o <<AssistantMessage(op.job, jobs[op.job].tokens)>>
                /\ status' = "idle"
                /\ jobs' = <<>>
      ]_vars

\* C9 read literally: the new user message holds exactly the text of the
\* edit box. It does not when that text has surrounding whitespace, which
\* handleSaveEdit trims.
C9_ExactText ==
    [][ \A i \in UserIndices, text \in Inputs :
            (Trim(text) # <<>> /\ handleSaveEdit(i, text)) =>
                streamMessages' =
                    SubSeq(displayMessages, 1, i)
                    \o <<UserMessage(nextId, <<TextPart(text)>>)>>
      ]_vars

\* C9 witness: [U1, A1, U2, A2] edited at U2 with the text " b"; the live
\* list is [U1, A1], a new user message holding "b", which differs from
\* U2's text, and the new assistant message.
C9_Witness ==
    /\ op.kind = "edit"
    /\ jobs[op.job].tokens >= 1
    /\ Len(streamMessages) = 4
    /\ SubSeq(streamMessages, 1, 2) = SubSeq(EarlierMessages, 1, 2)
    /\ streamMessages[3].role = "user"
    /\ streamMessages[3].parts = <<TextPart(<<"b">>)>>
    /\ streamMessages[3].parts # EarlierMessages[3].parts
    /\ streamMessages[4] = AssistantMessage(op.job, jobs[op.job].tokens)

\* C10: regenerating at an index with no user message before it changes
\* nothing: the live list, the displayed messages, the bound session id, the
\* status and the store stay as they are and no response is started.
C10_RegenerateNoOp ==
    [][ \A i \in AssistantIndices :
            (~HasUserBefore(displayMessages, i) /\ handleRegenerateResponse(i)) =>
                /\ streamMessages' = streamMessages
                /\ displayMessages' = displayMessages
                /\ activeStreamingSessionId' = activeStreamingSessionId
                /\ status' = status
                /\ lsSessions' = lsSessions /\ lsCurrent' = lsCurrent
                /\ jobs' = jobs /\ sent' = sent
                /\ UNCHANGED vars
      ]_vars

\* C10 witness: the displayed conversation begins with an assistant message
\* (left in the live list by a response that outlived New Chat), so the
\* Regenerate button of that message has no user message before it.
C10_Witness ==
    /\ displayMessages # <<>>
    /\ displayMessages[1].role = "assistant"
    /\ 0 \in AssistantIndices
    /\ ~HasUserBefore(displayMessages, 0)
    /\ streamMessages = displayMessages
    /\ currentSessionId # Null

\* C11: handleRegenerateResponse called with an index that is beyond the list
\* or is the index of a user message, and handleSaveEdit called with an index
\* that is beyond the list or is the index of an assistant message, change
\* nothing. The code breaks it: neither handler looks at the message at the
\* index, both truncate the live list and send.
C11_InvalidIndexNoOp ==
    [][ /\ \A i \in AnyIndices \ AssistantIndices :
              handleRegenerateResponse(i) => UNCHANGED vars
        /\ \A i \in AnyIndices \ UserIndices, text \in Inputs :
              handleSaveEdit(i, text) => UNCHANGED vars
      ]_vars

\* the ids of the messages of a list
IdsOf(list) == { list[k].id : k \in 1..Len(list) }

\* the ids a regenerate at index i (from 0) discards: the nearest user
\* message before i and everything after it; an edit at i: message i and
\* everything after it
RegenerateDiscards(i) ==
    IdsOf(displayMessages) \
        IdsOf(SubSeq(displayMessages, 1, NearestUserBefore(displayMessages, i) - 1))
EditDiscards(i) == IdsOf(displayMessages) \ IdsOf(SubSeq(displayMessages, 1, i))

\* a regenerate or an edit started at rest is under way
Truncated == op.kind \in {"regenerate", "edit"}

\* C12: a regenerate or edit started at rest leaves none of the messages it
\* discards in the live list or in the stored record of the session, and
\* records the truncated list (op.list); while its response runs, and after
\* the step in which the response fails or the user stops it, the live list
\* and the stored record of the session are still that truncated list
\* followed by what the response delivered: the discarded tail is not
\* restored.
C12_TailNotRestored ==
    /\ [][ /\ \A i \in AssistantIndices :
               ( /\ ~isLoading /\ jobs = <<>>
                 /\ HasUserBefore(displayMessages, i)
                 /\ handleRegenerateResponse(i) ) =>
                   /\ IdsOf(streamMessages') \cap RegenerateDiscards(i) = {}
                   /\ IdsOf(StoredMessages(lsSessions', currentSessionId))
                         \cap RegenerateDiscards(i) = {}
                   /\ op'.kind = "regenerate" /\ op'.list = streamMessages'
           /\ \A i \in UserIndices, text \in Inputs :
               ( /\ ~isLoading /\ jobs = <<>>
                 /\ Trim(text) # <<>>
                 /\ handleSaveEdit(i, text) ) =>
                   /\ IdsOf(streamMessages') \cap EditDiscards(i) = {}
                   /\ IdsOf(StoredMessages(lsSessions', currentSessionId))
                         \cap EditDiscards(i) = {}
                   /\ op'.kind = "edit" /\ op'.list = streamMessages'
           /\ (Truncated /\ (StreamError(op.job) \/ stopGeneration)) =>
                   /\ streamMessages' = op.list \o Received(op.job)
                   /\ status' = "idle"
                   /\ (HasRecord(activeStreamingSessionId) =>
                         StoredMessages(lsSessions', activeStreamingSessionId)
                             = op.list \o Received(op.job))
         ]_vars
    /\ [](Truncated =>
            /\ streamMessages = op.list \o Received(op.job)
            /\ (HasRecord(activeStreamingSessionId) =>
                  StoredMessages(lsSessions, activeStreamingSessionId) = streamMessages))

\* C12 witness: [U1, A1, U2, A2] was cut back to [U1, A1] and a new user
\* message, the response ended before its first token (failure or stop), and
\* the live list and the stored record are the truncated list: A2 is gone.
C12_Witness ==
    /\ status = "idle" /\ jobs = <<>>
    /\ Len(streamMessages) = 3
    /\ SubSeq(streamMessages, 1, 2) = SubSeq(EarlierMessages, 1, 2)
    /\ streamMessages[3].role = "user"
    /\ streamMessages[3].id > EarlierMessages[4].id
    /\ StoredMessages(lsSessions, 1) = streamMessages
    /\ ~(EarlierMessages[4].id \in IdsOf(StoredMessages(lsSessions, 1)))

\* C13: whenever the status is submitted or streaming, stopGeneration can be
\* taken and brings the status to idle, leaving the live list as it is (the
\* partial assistant message stays) and the stored record of the bound
\* session, when it has one, equal to it. The code breaks it: after a send
\* made during a response (handleRegenerateResponse, handleSaveEdit) the
\* transport has no active response left to abort once the later response
\* has ended, while the earlier one is still streaming.
C13_StopKeepsPartial ==
    isLoading =>
        ENABLED ( /\ stopGeneration
                  /\ status' = "idle"
                  /\ streamMessages' = streamMessages
                  /\ (HasRecord(activeStreamingSessionId) =>
                        StoredMessages(lsSessions', activeStreamingSessionId)
                            = streamMessages) )

\* C14: deleting the session a running response is bound to, displayed or
\* not, brings the status to idle and clears the bound session id. The code
\* breaks it: handleDeleteSession never stops the response, and clears the
\* bound id only when the deleted session is the displayed one.
C14_DeleteBoundStops ==
    [][ \A id \in ListedIds :
            ( /\ isLoading
              /\ id = activeStreamingSessionId
              /\ handleDeleteSession(id) ) =>
                /\ status' = "idle"
                /\ activeStreamingSessionId' = Null
      ]_vars

\* C15: a stored session keeps its createdAt through every later save of
\* that session. The code breaks it: the save effect builds every record
\* with createdAt: new Date() and saveSession replaces the stored record by
\* it.
C15_CreatedAtPreserved ==
    [][ \A id \in StoredIds(lsSessions) \cap StoredIds(lsSessions') :
            StoredRecord(lsSessions', id).createdAt
                = StoredRecord(lsSessions, id).createdAt
      ]_vars

\* C16: saveSession(session) replaces the stored record in place, at the
\* same position, when a record with session.id exists, and otherwise puts
\* the record at the front of the list; every other record and the order of
\* the other records are unchanged.
C16_UpsertInPlaceOrFront ==
    [][ \A session \in StoreSessions :
            ( CanWrite(storage) /\ CallSaveSession(session) ) =>
                LET old == getAllSessions(lsSessions, storage)
                    new == getAllSessions(lsSessions', storage)
                    index == FindIndex(old, session.id)
                IN  IF index >= 1
                    THEN /\ Len(new) = Len(old)
                         /\ \A k \in 1..Len(old) :
                                new[k] = IF k = index THEN session ELSE old[k]
                    ELSE new = <<session>> \o old
      ]_vars

\* a record was replaced in place behind another record
C16_Witness ==
    /\ op.kind = "saveSession"
    /\ CanWrite(storage)
    /\ LET all == getAllSessions(lsSessions, storage)
       IN  /\ Len(all) >= 2
           /\ all[2].id = op.job
           /\ all[2].messages = op.list
           /\ all[1].id # op.job

\* C17: deleteSession(id) is idempotent: with an id that is not in the store
\* the list of sessions is unchanged, a second call yields the same store as
\* the first, and only the record with that id is removed, the others and
\* their order kept.
C17_RemoveIdempotent ==
    [][ \A id \in 1..MaxSessions :
            ( CanWrite(storage) /\ CallDeleteSession(id) ) =>
                LET old == getAllSessions(lsSessions, storage)
                    new == getAllSessions(lsSessions', storage)
                IN  /\ new = SelectSeq(old, LAMBDA s : s.id # id)
                    /\ (id \notin IdsOf(old) => new = old)
                    /\ deleteSession(lsSessions', storage, id) = lsSessions'
      ]_vars

\* after deleteSession its id is not stored and another record still is
C17_Witness ==
    /\ op.kind = "deleteSession"
    /\ CanWrite(storage)
    /\ op.job \notin StoredIds(lsSessions)
    /\ Len(getAllSessions(lsSessions, storage)) >= 1

\* C18: when the storage is unavailable or throws, the store degrades:
\* getAllSessions returns the empty list and getCurrentSessionId returns
\* null when reading throws, and saveSession, deleteSession,
\* updateSessionTitle and setCurrentSessionId leave both stored keys as they
\* were when writing throws.
C18_DegradesOnFailure ==
    /\ [] ( ~CanRead(storage) =>
                /\ getAllSessions(lsSessions, storage) = <<>>
                /\ getCurrentSessionId(lsCurrent, storage) = Null )
    /\ [][ ( /\ ~CanWrite(storage)
             /\ \/ \E session \in StoreSessions : CallSaveSession(session)
                \/ \E id \in 1..MaxSessions : CallDeleteSession(id)
                \/ \E id \in 1..MaxSessions, title \in Titles :
                        CallUpdateSessionTitle(id, title)
                \/ \E id \in (1..MaxSessions) \cup {EmptyId} :
                        CallSetCurrentSessionId(id) ) =>
                /\ lsSessions' = lsSessions
                /\ lsCurrent' = lsCurrent
         ]_vars

\* saveSession of a new id was refused by a full storage that holds a
\* record of another id
C18_Witness ==
    /\ op.kind = "saveSession refused"
    /\ storage = "quota"
    /\ op.job \notin StoredIds(lsSessions)
    /\ Len(getAllSessions(lsSessions, storage)) >= 1

\* C19: a storage write failure during saveSession does not keep a send
\* from completing in memory: the user message is appended to the live list,
\* the status goes idle -> submitted -> streaming -> idle, and the displayed
\* messages show the exchange, while nothing is written.
C19_SendSurvivesWriteFailure ==
    /\ [] ( \A input \in Inputs :
                ( /\ ~CanWrite(storage)
                  /\ ~isLoading
                  /\ Trim(input) # <<>>
                  /\ CanSend /\ CanMint(currentSessionId) ) =>
                    ENABLED ( /\ handleSubmit(input)
                              /\ streamMessages' = Append(streamMessages,
                                    UserMessage(nextId, <<TextPart(Trim(input))>>))
                              /\ status' = "submitted"
                              /\ displayMessages' = streamMessages'
                              /\ lsSessions' = lsSessions ) )
    /\ [][ \A j \in JobIds :
              ~CanWrite(storage) =>
                /\ StreamChunk(j) =>
                      /\ status' = "streaming"
                      /\ streamMessages'[Len(streamMessages')]
                            = AssistantMessage(j, jobs'[j].tokens)
                      /\ displayMessages' = streamMessages'
                      /\ lsSessions' = lsSessions
                /\ StreamFinish(j) =>
                      /\ status' = "idle"
                      /\ streamMessages' = streamMessages
                      /\ displayMessages' = streamMessages'
                      /\ lsSessions' = lsSessions
         ]_vars

\* a whole exchange is displayed and nothing was ever stored
C19_Witness ==
    /\ ~CanWrite(storage)
    /\ status = "idle"
    /\ lsSessions = Absent
    /\ Len(displayMessages) >= 2
    /\ displayMessages = streamMessages
    /\ displayMessages[Len(displayMessages)].role = "assistant"

\* C20: after saveSession, getAllSessions returns for the saved id a session
\* with the messages most recently saved under that id: the same length, the
\* same last message, the same order.
C20_RoundTripMessages ==
    ( op.kind = "saveSession" /\ CanRead(storage) ) =>
        /\ op.job \in StoredIds(lsSessions)
        /\ LET got == StoredMessages(lsSessions, op.job)
           IN  /\ Len(got) = Len(op.list)
               /\ got[Len(got)] = op.list[Len(op.list)]
               /\ \A k \in 1..Len(got) : got[k] = op.list[k]

\* a session of several messages was saved next to another session and is
\* read back
C20_Witness ==
    /\ op.kind = "saveSession"
    /\ CanRead(storage)
    /\ Len(op.list) >= 2
    /\ Len(getAllSessions(lsSessions, storage)) >= 2
    /\ StoredMessages(lsSessions, op.job) = op.list

\* the groups the sidebar renders
SessionGroups == groupSessionsByDate(sessions, now)
GroupRank(label) == CHOOSE i \in 1..Len(GroupLabels) : GroupLabels[i] = label
\* where session k of the list appears in the groups
PlacesOf(groups, session) ==
    { <<i, j>> \in (1..Len(groups)) \X (1..MaxListed) :
        j <= Len(groups[i].sessions) /\ groups[i].sessions[j] = session }
PositionIn(list, session) == CHOOSE k \in 1..Len(list) : list[k] = session

\* C21: groupSessionsByDate is exhaustive and order-stable: every session of
\* the list is in exactly one group, no group is empty, the groups come in the
\* order Today, Yesterday, Last 7 Days, Last 30 Days, Older, and the sessions
\* of a group keep the order of the list.
C21_GroupsExhaustiveStable ==
    LET groups == SessionGroups
    IN  /\ \A k \in 1..Len(sessions) :
               Cardinality(PlacesOf(groups, sessions[k])) = 1
        /\ \A i \in 1..Len(groups) :
               /\ Len(groups[i].sessions) > 0
               /\ groups[i].label \in { GroupLabels[r] : r \in 1..Len(GroupLabels) }
               /\ \A j \in 1..Len(groups[i].sessions) :
                      \E k \in 1..Len(sessions) : sessions[k] = groups[i].sessions[j]
               /\ \A j1, j2 \in 1..Len(groups[i].sessions) :
                      j1 < j2 =>
                          PositionIn(sessions, groups[i].sessions[j1])
                              < PositionIn(sessions, groups[i].sessions[j2])
        /\ \A i1, i2 \in 1..Len(groups) :
               i1 < i2 => GroupRank(groups[i1].label) < GroupRank(groups[i2].label)

\* the second of three sessions was renamed and is alone in Today, the other
\* two share Older in the order of the list, and no group lies between
C21_Witness ==
    LET groups == SessionGroups
    IN  /\ Len(sessions) = 3
        /\ sessions[2].title \in Titles
        /\ Len(groups) = 2
        /\ groups[1].label = "Today" /\ groups[1].sessions = <<sessions[2]>>
        /\ groups[2].label = "Older"
        /\ groups[2].sessions = <<sessions[1], sessions[3]>>

\* C22: a session is grouped by its updatedAt in half-open intervals anchored
\* at the start of the current day: Today from today 00:00 on, Yesterday in
\* [today - 1d, today), Last 7 Days in [today - 7d, today - 1d), Last 30 Days
\* in [today - 30d, today - 7d), Older before today - 30d; a time exactly on
\* a boundary belongs to the more recent group.
C22_HalfOpenIntervals ==
    LET groups == SessionGroups
        today == now - (now % DayLength)
        day == DayLength
    IN  \A i \in 1..Len(groups) : \A j \in 1..Len(groups[i].sessions) :
            LET u == groups[i].sessions[j].updatedAt
            IN  /\ groups[i].label = "Today" <=> u >= today
                /\ groups[i].label = "Yesterday" <=> (today - day <= u /\ u < today)
                /\ groups[i].label = "Last 7 Days" <=>
                        (today - 7 * day <= u /\ u < today - day)
                /\ groups[i].label = "Last 30 Days" <=>
                        (today - 30 * day <= u /\ u < today - 7 * day)
                /\ groups[i].label = "Older" <=> u < today - 30 * day

\* later in the day a session was renamed and is in Today, and sessions
\* updated exactly at today - 7d and today - 30d are in Last 7 Days and Last
\* 30 Days
C22_Witness ==
    LET groups == SessionGroups
        today == now - (now % DayLength)
    IN  /\ now # today
        /\ Len(groups) = 3
        /\ groups[1].label = "Today"
        /\ groups[1].sessions[1].title \in Titles
        /\ groups[1].sessions[1].updatedAt = now
        /\ groups[2].label = "Last 7 Days"
        /\ groups[2].sessions[1].updatedAt = today - 7 * DayLength
        /\ groups[3].label = "Last 30 Days"
        /\ groups[3].sessions[1].updatedAt = today - 30 * DayLength

\* the first user message of a list and its first text part, if any
FirstUser(messages) ==
    LET users == { k \in 1..Len(messages) : messages[k].role = "user" }
    IN  IF users = {} THEN <<>> ELSE <<messages[Min(users)]>>
FirstText(message) ==
    LET texts == { k \in 1..Len(message.parts) : message.parts[k].type = "text" }
    IN  IF texts = {} THEN <<>> ELSE <<message.parts[Min(texts)].text>>
\* the title of a trimmed text: cut to 50 characters and marked when longer
CutTitle(text) ==
    IF Len(text) > 50 THEN SubSeq(text, 1, 50) \o <<".", ".", ".">> ELSE text
AllStored == getAllSessions(lsSessions, storage)

C24_NoEmptySession ==
    \A k \in 1..Len(AllStored) : AllStored[k].messages # <<>>

\* a regenerate or edit of the first message has cut the list to nothing and
\* sent, and the bound session is stored with that one message
C24_Witness ==
    /\ op.kind \in {"regenerate", "edit"}
    /\ Len(op.list) = 1
    /\ status = "submitted"
    /\ HasRecord(activeStreamingSessionId)
    /\ StoredMessages(lsSessions, activeStreamingSessionId) = op.list

\* C25: session ids are unique across the store: after any sequence of
\* saveSession, deleteSession and updateSessionTitle from a store with
\* unique ids, no two stored records have the same id.
C25_UniqueIds ==
    LET all == getAllSessions(lsSessions, "ok")
    IN  \A i, j \in 1..Len(all) : all[i].id = all[j].id => i = j

\* a stored session was renamed, which saves it again, next to another one
C25_Witness ==
    /\ op.kind = "updateSessionTitle"
    /\ CanRead(storage)
    /\ Len(AllStored) >= 2
    /\ op.job \in StoredIds(lsSessions)
    /\ StoredRecord(lsSessions, op.job).title \in Titles

\* C26: every started stream returns to idle: with a fair transport,
\* whenever the status is submitted or streaming it eventually becomes idle,
\* and once it is idle the bound session id is cleared (the clearing effect
\* runs in the commit that makes the status idle, so no idle state is left
\* with a bound id).
C26_ReturnsToIdle ==
    /\ isLoading ~> (status = "idle")
    /\ [] (status = "idle" => activeStreamingSessionId = Null)

\* a response has run to its end: the page is idle with the reply last in
\* the live list, nothing bound and nothing under way
C26_Witness ==
    /\ sent >= 1
    /\ status = "idle"
    /\ activeStreamingSessionId = Null
    /\ jobs = <<>>
    /\ streamMessages # <<>>
    /\ streamMessages[Len(streamMessages)].role = "assistant"
    /\ streamMessages[Len(streamMessages)].id >= nextId - 1

\* C27: no send is started while a response is in flight, through any entry
\* point: while the status is submitted or streaming no step starts a
\* submission, so at most one response is ever under way. The code breaks
\* it: handleRegenerateResponse and handleSaveEdit have no isLoading check,
\* and the send that follows the OCR response has none either.
C27_NoSendWhileLoading ==
    [][ isLoading =>
            /\ sent' = sent
            /\ Cardinality(DOMAIN jobs') <= 1
      ]_vars

\* C28: sending in a session neither mixes in nor loses history: when a
\* stored session is displayed with its stored messages, the page is idle
\* with no response under way, and the user sends a message, the live list
\* and the stored messages of that session become its stored messages
\* followed by the new message. The code breaks it: handleSelectSession
\* changes the displayed list only, so the live list still holds the
\* conversation sent to last, and the send saves that list plus the new
\* message under the selected session.
C28_SendKeepsHistory ==
    [][ \A input \in Inputs :
            ( /\ ~isLoading /\ jobs = <<>>
              /\ currentSessionId # Null
              /\ HasRecord(currentSessionId)
              /\ displayMessages = StoredMessages(lsSessions, currentSessionId)
              /\ Trim(input) # <<>>
              /\ handleSubmit(input) ) =>
                LET before == StoredMessages(lsSessions, currentSessionId)
                    sentList == Append(before,
                                  UserMessage(nextId, <<TextPart(Trim(input))>>))
                IN  /\ streamMessages' = sentList
                    /\ StoredMessages(lsSessions', currentSessionId) = sentList
      ]_vars

\* C29: a deleted session never reappears. Session ids are handed out in
\* increasing order and a session is stored in the step that creates it, so
\* an id already handed out that has no record is the id of a deleted
\* session: no step stores a record under such an id. The code breaks it: a
\* chunk of a response bound to a session that was deleted while another
\* session was displayed runs the save effect, which stores the session
\* again.
C29_DeletedStaysDeleted ==
    [][ \A id \in 1..(nextSession - 1) :
            id \notin StoredIds(lsSessions) => id \notin StoredIds(lsSessions')
      ]_vars

\* C30: a rename is durable: a stored session that carries a title given by
\* handleRenameSession keeps it through every step that is not a rename of
\* that session, and a rename changes only the title and updatedAt of that
\* one record. The code breaks the first part: the save effect builds every
\* record with generateSessionTitle(streamMessages), so the next save of
\* the session puts the derived title back.
C30_RenameDurable ==
    [][ /\ \A id \in StoredIds(lsSessions) \cap StoredIds(lsSessions') :
              ( /\ StoredRecord(lsSessions, id).title \in Titles
                /\ ~ \E title \in Titles : handleRenameSession(id, title) ) =>
                    StoredRecord(lsSessions', id).title
                        = StoredRecord(lsSessions, id).title
        /\ \A id \in ListedIds, title \in Titles :
              handleRenameSession(id, title) =>
                  /\ StoredIds(lsSessions') = StoredIds(lsSessions)
                  /\ \A other \in StoredIds(lsSessions) \ {id} :
                        StoredRecord(lsSessions', other) = StoredRecord(lsSessions, other)
                  /\ id \in StoredIds(lsSessions) =>
                        StoredRecord(lsSessions', id) =
                            [StoredRecord(lsSessions, id) EXCEPT
                                !.title = title, !.updatedAt = now]
      ]_vars

====
